---------------------------- MODULE Spec2Model ----------------------------
(***************************************************************************)
(* A model of the CHIP-8 interpreter of src/src/lib.rs (struct Chip8) and  *)
(* of the way its callers (src/src/main.rs, src/src/wasm.rs) drive it.     *)
(*                                                                         *)
(* The two zero-initialised byte arrays of the machine, ram ([u8; 4096])   *)
(* and display ([u8; 2048]), are held as functions whose domain is the set *)
(* of cells with a non-zero content (every other cell reads 0).  The       *)
(* encoding is exact and canonical: two arrays are equal iff their         *)
(* encodings are equal.  Rd and Wr are the array read and write.           *)
(***************************************************************************)
EXTENDS Integers, Sequences, FiniteSets, TLC

(***************************************************************************)
(* Bounds of the model.                                                    *)
(***************************************************************************)
\* number of cycles (fetch, then decode_execute) the driver performs
MaxSteps == 18
\* number of load_rom calls the driver performs
MaxLoads == 2
\* the random bytes op_cxnn may draw are (k * RandStep) % 256, k in 0..RandCount
RandCount == 2
RandStep == 125
\* number of keys the input collaborator holds down at a time
MaxPressed == 2
\* number of tick_timers calls the driver performs after a timer was written
MaxTicks == 4

\* iterations of the frame loop a run performs
MaxFrames == 3

(***************************************************************************)
(* Program constants.                                                      *)
(***************************************************************************)
RAM_SIZE == 4096
DISPLAY_WIDTH == 64
DISPLAY_HEIGHT == 32
STACK_SIZE == 16
NUM_KEYS == 16
FONT_START_ADDR == 80
START_ADDR == 512

\* the cycles of one iteration of the frame loop
CYCLES_PER_FRAME == 10

FONT_SET ==
  << \hF0, \h90, \h90, \h90, \hF0,
     \h20, \h60, \h20, \h20, \h70,
     \hF0, \h10, \hF0, \h80, \hF0,
     \hF0, \h10, \hF0, \h10, \hF0,
     \h90, \h90, \hF0, \h10, \h10,
     \hF0, \h80, \hF0, \h10, \hF0,
     \hF0, \h80, \hF0, \h90, \hF0,
     \hF0, \h10, \h20, \h40, \h40,
     \hF0, \h90, \hF0, \h90, \hF0,
     \hF0, \h90, \hF0, \h10, \hF0,
     \hF0, \h90, \hF0, \h90, \h90,
     \hE0, \h90, \hE0, \h90, \hE0,
     \hF0, \h80, \h80, \h80, \hF0,
     \hE0, \h90, \h90, \h90, \hE0,
     \hF0, \h80, \hF0, \h80, \hF0,
     \hF0, \h80, \hF0, \h80, \h80 >>

(***************************************************************************)
(* Machine arithmetic on unsigned integers: the operators &, |, ^, >>, <<  *)
(* and the wrapping u8 operations of Rust.                                 *)
(***************************************************************************)
RECURSIVE BitAnd(_, _)
BitAnd(a, b) ==
  IF a = 0 \/ b = 0 THEN 0
  ELSE (a % 2) * (b % 2) + 2 * BitAnd(a \div 2, b \div 2)

RECURSIVE BitOr(_, _)
BitOr(a, b) ==
  IF a = 0 THEN b
  ELSE IF b = 0 THEN a
  ELSE (IF a % 2 = 1 \/ b % 2 = 1 THEN 1 ELSE 0) + 2 * BitOr(a \div 2, b \div 2)

RECURSIVE BitXor(_, _)
BitXor(a, b) ==
  IF a = 0 THEN b
  ELSE IF b = 0 THEN a
  ELSE (((a % 2) + (b % 2)) % 2) + 2 * BitXor(a \div 2, b \div 2)

Shr(a, k) == a \div (2 ^ k)

Shl8(a, k) == (a * (2 ^ k)) % 256

Shl16(a, k) == (a * (2 ^ k)) % 65536

WrappingAdd8(a, b) == (a + b) % 256

WrappingSub8(a, b) == (a - b + 256) % 256

Min(a, b) == IF a <= b THEN a ELSE b

(***************************************************************************)
(* Zero-default arrays.                                                    *)
(***************************************************************************)
Rd(arr, a) == IF a \in DOMAIN arr THEN arr[a] ELSE 0

Wr(arr, a, v) ==
  [k \in (IF v = 0 THEN DOMAIN arr \ {a} ELSE DOMAIN arr \cup {a}) |->
     IF k = a THEN v ELSE arr[k]]

\* the positions of a byte sequence that hold a non-zero byte
NonZero(data) == {k \in 1..Len(data) : data[k] # 0}

(***************************************************************************)
(* The ROM images the driver may load.  The short ones are programs; the   *)
(* long ones exercise the truncation of load_rom at 4096 - 0x200 bytes.    *)
(***************************************************************************)
\* main.rs test_fetch: JP 0x234, then data
RomFetch == << \h12, \h34, \h56, \h78 >>

\* main.rs test_arithmetic_and_carry_flag with random operands:
\*   200 V1 = rnd        202 V2 = rnd
\*   204 V3 = V1         206 ADD V3, V2      208 ADD V3, 0xAB
\*   20A V4 = V1         20C SUB V4, V2
\*   20E V5 = V1         210 SUBN V5, V2
\*   212 V6 = V1         214 SHR V6
\*   216 V7 = V1         218 SHL V7
\*   21A LD V8, 7        21C ADD V1, V1      21E SUB V2, V2
\*   220 JP 220
RomAlu ==
  << \hC1, \hFF,  \hC2, \hFF,
     \h83, \h10,  \h83, \h24,  \h73, \hAB,
     \h84, \h10,  \h84, \h25,
     \h85, \h10,  \h85, \h27,
     \h86, \h10,  \h86, \h06,
     \h87, \h10,  \h87, \h0E,
     \h68, \h07,  \h81, \h14,  \h82, \h25,
     \h12, \h20 >>

\* VF as an operand of the flag-setting instructions:
\*   200 V1 = 3
\*   202 VF = 7   204 SUB VF, V1     206 VF = 7   208 SUB V1, VF
\*   20A VF = 7   20C SUBN VF, V1    20E VF = 7   210 SUBN V1, VF
\*   212 VF = 3   214 SHR VF         216 VF = 0x83  218 SHL VF
\*   21A VF = 7   21C ADD VF, V1     21E VF = 7   220 ADD V1, VF
\*   222 JP 222
RomFlagOperand ==
  << \h61, \h03,
     \h6F, \h07,  \h8F, \h15,  \h6F, \h07,  \h81, \hF5,
     \h6F, \h07,  \h8F, \h17,  \h6F, \h07,  \h81, \hF7,
     \h6F, \h03,  \h8F, \h06,  \h6F, \h83,  \h8F, \h0E,
     \h6F, \h07,  \h8F, \h14,  \h6F, \h07,  \h81, \hF4,
     \h12, \h22 >>

\* main.rs test_call_and_return, nested one level deeper:
\*   200 CALL 206   202 LD V1, 1   204 JP 204
\*   206 CALL 20A   208 RET        20A RET
RomCall ==
  << \h22, \h06,  \h61, \h01,  \h12, \h04,  \h22, \h0A,
     \h00, \hEE,  \h00, \hEE >>

\* CALL self: fills the stack
RomRecurse == << \h22, \h00 >>

\* RET on an empty stack
RomReturn == << \h00, \hEE >>

\* main.rs test_display_font_render at random coordinates:
\*   200 V1 = rnd        202 V2 = rnd
\*   204 VA = 0xA        206 I = glyph VA
\*   208 DRW V1, V2, 5   20A DRW V1, V2, 5   20C DRW V1, V2, 5
\*   20E VB = 1          210 I = glyph VB
\*   212 DRW V1, V2, 5   214 DRW V2, V1, 15  216 DRW V1, V2, 0
\*   218 DRW VF, V2, 5   21A CLS             21C JP 21C
RomDraw ==
  << \hC1, \hFF,  \hC2, \hFF,  \h6A, \h0A,  \hFA, \h29,
     \hD1, \h25,  \hD1, \h25,  \hD1, \h25,
     \h6B, \h01,  \hFB, \h29,
     \hD1, \h25,  \hD2, \h1F,  \hD1, \h20,  \hDF, \h25,
     \h00, \hE0,  \h12, \h1C >>

\* main.rs test_ibm_logo_logic
RomIbm ==
  << \h00, \hE0, \hA2, \h2A, \h60, \h0C, \h61, \h08, \hD0, \h1F, \h70, \h09,
     \hA2, \h39, \hD0, \h1F, \hA2, \h48, \h70, \h08, \hD0, \h1F, \h12, \h16,
     \h00, \h00, \h7C, \h82, \h82, \h82, \h7C, \h00, \h00, \h00, \h00, \h00,
     \h00, \h00, \h00, \h00, \h00, \h00, \h00, \h00, \h1F, \h10, \h10, \h10,
     \h10, \h10, \h10, \h10, \h1F, \h00, \h00, \h00, \h00, \h00, \h00, \h00,
     \h00, \h00, \h00, \h00, \h00, \h00, \h00, \h00, \h1F, \h11, \h11, \h11,
     \h1F, \h11, \h11, \h11, \h1F, \h00, \h00, \h00 >>

\* the timers:
\*   200 V3 = 3   202 DT = V3   204 V4 = 2   206 ST = V4
\*   208 V6 = key (wait)        20A V5 = DT  20C JP 208
RomTimer ==
  << \h63, \h03,  \hF3, \h15,  \h64, \h02,  \hF4, \h18,
     \hF6, \h0A,  \hF5, \h07,  \h12, \h08 >>

\* the keypad:
\*   200 V3 = key (wait)   202 SKP V3   204 SKNP V3   206 JP 200
RomKey ==
  << \hF3, \h0A,  \hE3, \h9E,  \hE3, \hA1,  \h12, \h00 >>


\* words no arm of decode_execute matches, then a defined one:
\*   200 5121   202 9121   204 8128   206 812F   208 E100   20A E19F
\*   20C F100   20E F1FF   210 VA = 1 212 JP 212
RomUnknown ==
  << \h51, \h21,  \h91, \h21,  \h81, \h28,  \h81, \h2F,  \hE1, \h00,
     \hE1, \h9F,  \hF1, \h00,  \hF1, \hFF,  \h6A, \h01,  \h12, \h12 >>


\* a glyph lookup on a value above 0x0F:
\*   200 VA = 0x1A   202 I = glyph VA   204 DRW V0, V0, 5   206 JP 206
RomFont ==
  << \h6A, \h1A,  \hFA, \h29,  \hD0, \h05,  \h12, \h06 >>


\* decimal digits, into free memory, across the end of the font table and
\* into the last three bytes of memory:
\*   200 V1 = rnd    202 I = 0x300   204 BCD V1
\*   206 I = 0x09E   208 BCD V1      20A I = 0xFFD   20C BCD V1
\*   20E JP 20E
RomBcd ==
  << \hC1, \hFF,  \hA3, \h00,  \hF1, \h33,  \hA0, \h9E,  \hF1, \h33,
     \hAF, \hFD,  \hF1, \h33,  \h12, \h0E >>


\* block transfers:
\*   200 V0 = 5      202 V1 = 7      204 V2 = 9      206 I = 0x300
\*   208 store V0..V2                20A load V0..V2
\*   20C I = 0x052   20E load V0..V1 (from the font table)
\*   210 I = 0x050   212 store V0 (into the font table)    214 load V0
\*   216 JP 216
RomBlock ==
  << \h60, \h05,  \h61, \h07,  \h62, \h09,  \hA3, \h00,  \hF2, \h55,
     \hF2, \h65,  \hA0, \h52,  \hF1, \h65,  \hA0, \h50,  \hF0, \h55,
     \hF0, \h65,  \h12, \h16 >>


\* shifts whose y is VF, another register, and x itself:
\*   200 V1 = 0x83   202 VF = 7      204 SHR V1 {, VF}
\*   206 V2 = 5      208 SHL V1 {, V2}   20A SHL V1 {, V1}
\*   20C SHR V2 {, V1}               20E JP 20E
RomShift ==
  << \h61, \h83,  \h6F, \h07,  \h81, \hF6,  \h62, \h05,  \h81, \h2E,
     \h81, \h1E,  \h82, \h16,  \h12, \h0E >>


\* a BCD store that runs off the end of ram:
\*   200 V1 = 0xFF   202 I = 0xFFE   204 LD B, V1
RomBcdEnd ==
  << \h61, \hFF,  \hAF, \hFE,  \hF1, \h33 >>


\* every conditional skip with its condition true and false:
\*   200 V1 = 5   202 V2 = 5   204 V3 = 7
\*   206 SE V1, 5     208 VF = 1   20A SNE V1, 5
\*   20C SE V1, 6     20E SNE V1, 6    210 VF = 1
\*   212 SE V1, V2    214 VF = 1   216 SNE V1, V2
\*   218 SE V1, V3    21A SNE V1, V3   21C VF = 1
\*   21E SE V3, V3    220 VF = 1   222 JP 222
RomSkip ==
  << \h61, \h05,  \h62, \h05,  \h63, \h07,  \h31, \h05,  \h6F, \h01,
     \h41, \h05,  \h31, \h06,  \h41, \h06,  \h6F, \h01,  \h51, \h20,
     \h6F, \h01,  \h91, \h20,  \h51, \h30,  \h91, \h30,  \h6F, \h01,
     \h53, \h30,  \h6F, \h01,  \h12, \h22 >>

\* An image of len bytes: LD VA, 0x2A and JP 0x202, then zeros with a
\* non-zero byte every 512 bytes and in each of the last bytes from 3580 on.
LongRomByte(k) ==
  IF k <= 4 THEN << \h6A, \h2A, \h12, \h02 >>[k]
  ELSE IF k % 512 = 0 \/ k >= 3580 THEN 1 + (k % 255)
  ELSE 0

LongRom(len) == SubSeq([k \in 1..len |-> LongRomByte(k)], 1, len)

RomEmpty == << >>

RomFull == LongRom(RAM_SIZE - START_ADDR)

RomOverfull == LongRom(RAM_SIZE - START_ADDR + 1)

Roms ==
  << RomFetch, RomAlu, RomFlagOperand, RomCall, RomRecurse, RomReturn,
     RomDraw, RomIbm, RomTimer, RomEmpty, RomFull, RomOverfull, RomKey,
     RomUnknown,
     RomFont,
     RomBcd,
     RomBlock,
     RomShift,
     RomBcdEnd,
     RomSkip >>

RomNonZero == [r \in 1..Len(Roms) |-> NonZero(Roms[r])]

\* the images a load_rom over a loaded image draws from: a short one, the
\* empty one, the longest that fits and one that does not fit
Reloads ==
  {r \in 1..Len(Roms) : Roms[r] \in {RomFetch, RomEmpty, RomFull, RomOverfull}}

RandBytes == {(k * RandStep) % 256 : k \in 0..RandCount}

\* the keys the input collaborator reports: the one the key-wait scan skips,
\* the first it reads, a later one, and one beyond the keypad
KeyChoices == {0, 1, 5, NUM_KEYS}

(***************************************************************************)
(* State.                                                                  *)
(***************************************************************************)
VARIABLES
  ram,          \* Chip8.ram
  pc,           \* Chip8.pc
  i,            \* Chip8.i
  vx,           \* Chip8.vx
  display,      \* Chip8.display
  draw_flag,    \* Chip8.draw_flag
  stack,        \* Chip8.stack
  sp,           \* Chip8.sp
  keypad,       \* Chip8.keypad
  delay_timer,  \* Chip8.delay_timer
  sound_timer,  \* Chip8.sound_timer
  status,       \* "running", or "panicked" once an operation has panicked
  phase,        \* the driver's position in a cycle: "idle" or "fetched"
  opcode,       \* the word the last fetch returned
  steps,        \* fetches performed so far
  loads,        \* load_rom calls performed so far
  rom,          \* history: index in Roms of the last image loaded, 0 if none
  at,           \* history: the address the last fetch read its word from
  executed,     \* history: the word the last decode_execute ran since the
                \*          last load_rom, -1 if none
  shown,        \* history: the display before that decode_execute
  calls,        \* history: per pending CALL, the address following it and
                \*          the stack pointer it found
  since,        \* history: per timer, the value the last FX15 / FX18 wrote
                \*          to it (-1 if none did) and the tick_timers calls
                \*          since
  frame,        \* the frame driver: its host ("native" for Chip8::run,
                \*   "wasm" for Chip8Wasm, "none" before it starts), its
                \*   stage in the iteration, the iterations completed, and the
                \*   history of the current iteration: cycles run, tick_timers
                \*   calls, buffers handed to the renderer, and whether a
                \*   00E0 or DXYN was executed
  screen        \* the buffer last handed to the renderer

machine == << ram, pc, i, vx, display, draw_flag, stack, sp, keypad,
              delay_timer, sound_timer >>

driver == << status, phase, opcode, steps, loads >>

history == << rom, at, executed, shown, calls, since >>

frames == << frame, screen >>

vars == << machine, driver, history, frames >>


(***************************************************************************)
(* Chip8::new                                                              *)
(***************************************************************************)
Init ==
  /\ ram = [a \in FONT_START_ADDR..(FONT_START_ADDR + Len(FONT_SET) - 1) |->
              FONT_SET[a - FONT_START_ADDR + 1]]
  /\ pc = 0
  /\ i = 0
  /\ vx = [r \in 0..15 |-> 0]
  /\ display = << >>
  /\ draw_flag = FALSE
  /\ stack = [s \in 0..(STACK_SIZE - 1) |-> 0]
  /\ sp = 0
  /\ keypad = [k \in 0..(NUM_KEYS - 1) |-> FALSE]
  /\ delay_timer = 0
  /\ sound_timer = 0
  /\ status = "running"
  /\ phase = "idle"
  /\ opcode = 0
  /\ steps = 0
  /\ loads = 0
  /\ rom = 0
  /\ at = 0
  /\ executed = -1
  /\ shown = << >>
  /\ calls = << >>
  /\ since = [delay |-> [value |-> -1, ticks |-> 0],
              sound |-> [value |-> -1, ticks |-> 0]]
  /\ frame = [host |-> "none", stage |-> "load", count |-> 0, cycle |-> 0,
              ticked |-> 0, shows |-> 0, drew |-> FALSE]
  /\ screen = << >>

(***************************************************************************)
(* Chip8::load_rom: data is Roms[r], nz the positions of its non-zero      *)
(* bytes.  The slice copy overwrites ram[start_addr .. end_addr).          *)
(***************************************************************************)
\* load_rom with the room taken as the whole of ram
load_rom_room(data, nz) ==
  LET start_addr == START_ADDR
      max_len == RAM_SIZE
      copy_len == Min(Len(data), max_len)
      end_addr == start_addr + copy_len
      kept == {a \in DOMAIN ram : a < start_addr \/ a >= end_addr}
      copied == {start_addr + k - 1 : k \in {n \in nz : n <= copy_len}}
  IN /\ pc' = start_addr
     /\ ram' = [a \in kept \cup copied |->
                  IF a \in copied THEN data[a - start_addr + 1] ELSE ram[a]]
     /\ UNCHANGED << i, vx, display, draw_flag, stack, sp, keypad,
                     delay_timer, sound_timer, status >>

load_rom(data, nz) ==
  LET start_addr == START_ADDR
      max_len == RAM_SIZE - start_addr
      copy_len == Min(Len(data), max_len)
      end_addr == start_addr + copy_len
      kept == {a \in DOMAIN ram : a < start_addr \/ a >= end_addr}
      copied == {start_addr + k - 1 : k \in {n \in nz : n <= copy_len}}
  IN /\ pc' = start_addr
     /\ ram' = [a \in kept \cup copied |->
                  IF a \in copied THEN data[a - start_addr + 1] ELSE ram[a]]
     /\ UNCHANGED << i, vx, display, draw_flag, stack, sp, keypad,
                     delay_timer, sound_timer, status >>

\* A load over a loaded image is explored from the runs the collaborators
\* have left alone: no key is down and no timer was written.
Quiet ==
  /\ \A k \in DOMAIN keypad : ~keypad[k]
  /\ since.delay.value < 0
  /\ since.sound.value < 0

LoadRom ==
  /\ status = "running"
  /\ phase = "idle"
  /\ loads < MaxLoads
  /\ IF loads = 0 THEN TRUE ELSE Quiet
  /\ \E r \in IF loads = 0 THEN 1..Len(Roms) ELSE Reloads :
       /\ load_rom(Roms[r], RomNonZero[r])
       /\ rom' = r
  /\ loads' = loads + 1
  /\ executed' = -1
  /\ shown' = display
  /\ UNCHANGED << phase, opcode, steps, at, calls, since, frames >>

(***************************************************************************)
(* Chip8::fetch.  Indexing ram at 4096 or above panics before pc moves.    *)
(***************************************************************************)
\* fetch composing the word low byte first
fetch_little_endian ==
  IF pc >= RAM_SIZE \/ pc + 1 >= RAM_SIZE
  THEN /\ status' = "panicked"
       /\ UNCHANGED << pc, opcode >>
  ELSE LET high_byte == Rd(ram, pc)
           low_byte == Rd(ram, pc + 1)
       IN /\ pc' = pc + 2
          /\ opcode' = BitOr(Shl16(low_byte, 8), high_byte)
          /\ UNCHANGED status

fetch ==
  IF pc >= RAM_SIZE \/ pc + 1 >= RAM_SIZE
  THEN /\ status' = "panicked"
       /\ UNCHANGED << pc, opcode >>
  ELSE LET high_byte == Rd(ram, pc)
           low_byte == Rd(ram, pc + 1)
       IN /\ pc' = pc + 2
          /\ opcode' = BitOr(Shl16(high_byte, 8), low_byte)
          /\ UNCHANGED status

\* The callers fetch only once an image is loaded (main.rs main and tests,
\* wasm.rs load_pong).  The driver cycles the first image it loads; a later
\* load_rom is explored from every state between two cycles of that run,
\* and the collaborators (keys, timer ticks) act until then.
Fetch ==
  /\ status = "running"
  /\ phase = "idle"
  /\ steps < MaxSteps
  /\ loads = 1
  /\ fetch
  /\ phase' = IF status' = "running" THEN "fetched" ELSE phase
  /\ steps' = steps + 1
  /\ at' = pc
  /\ UNCHANGED << ram, i, vx, display, draw_flag, stack, sp, keypad,
                  delay_timer, sound_timer, loads, rom, executed, shown,
                  calls, since, frames >>

(***************************************************************************)
(* Chip8Wasm::set_key, called by the input collaborator between two        *)
(* cycles.                                                                 *)
(***************************************************************************)
set_key(key, pressed) ==
  LET idx == key
  IN /\ keypad' = IF idx < NUM_KEYS
                  THEN [keypad EXCEPT ![idx] = pressed]
                  ELSE keypad
     /\ UNCHANGED << ram, pc, i, vx, display, draw_flag, stack, sp,
                     delay_timer, sound_timer, status >>

SetKey ==
  /\ status = "running"
  /\ phase = "idle"
  /\ loads <= 1
  /\ \E key \in KeyChoices, pressed \in BOOLEAN : set_key(key, pressed)
  /\ Cardinality({k \in DOMAIN keypad : keypad'[k]}) <= MaxPressed
  /\ UNCHANGED << phase, opcode, steps, loads, history, frames >>

(***************************************************************************)
(* Chip8::tick_timers                                                      *)
(***************************************************************************)
\* a tick that decrements modulo 256
tick_timers_wrapping ==
  /\ delay_timer' = (delay_timer - 1) % 256
  /\ sound_timer' = (sound_timer - 1) % 256
  /\ UNCHANGED << ram, pc, i, vx, display, draw_flag, stack, sp, keypad,
                  status >>

tick_timers ==
  /\ delay_timer' = IF delay_timer > 0 THEN delay_timer - 1 ELSE delay_timer
  /\ sound_timer' = IF sound_timer > 0 THEN sound_timer - 1 ELSE sound_timer
  /\ UNCHANGED << ram, pc, i, vx, display, draw_flag, stack, sp, keypad,
                  status >>

\* The ticks that follow a write of a timer are counted, up to MaxTicks.
Ticked(log) ==
  IF log.value < 0 THEN log ELSE [log EXCEPT !.ticks = log.ticks + 1]

TickTimers ==
  /\ status = "running"
  /\ phase = "idle"
  /\ loads <= 1
  /\ since.delay.ticks < MaxTicks
  /\ since.sound.ticks < MaxTicks
  /\ tick_timers
  /\ since' = [delay |-> Ticked(since.delay), sound |-> Ticked(since.sound)]
  /\ UNCHANGED << phase, opcode, steps, loads, rom, at, executed, shown,
                  calls, frames >>

(***************************************************************************)
(* The opcode handlers.  Each one states the whole machine state after it. *)
(***************************************************************************)
\* CLS that leaves the dirty flag alone
op_00e0_flag_kept ==
  /\ display' = << >>
  /\ UNCHANGED << ram, pc, i, vx, draw_flag, stack, sp, keypad, delay_timer,
                  sound_timer, status >>

\* CLS
op_00e0 ==
  /\ display' = << >>
  /\ draw_flag' = TRUE
  /\ UNCHANGED << ram, pc, i, vx, stack, sp, keypad, delay_timer,
                  sound_timer, status >>

\* RET.  With sp = 0 the subtraction overflows: a build with overflow checks
\* panics there, a build without wraps sp to 65535 and panics on the index.
op_00ee ==
  IF sp = 0
  THEN /\ \E overflow_checks \in BOOLEAN :
            sp' = IF overflow_checks THEN sp ELSE 65535
       /\ status' = "panicked"
       /\ UNCHANGED << ram, pc, i, vx, display, draw_flag, stack, keypad,
                       delay_timer, sound_timer >>
  ELSE /\ sp' = sp - 1
       /\ IF sp - 1 >= STACK_SIZE
          THEN status' = "panicked" /\ pc' = pc
          ELSE status' = status /\ pc' = stack[sp - 1]
       /\ UNCHANGED << ram, i, vx, display, draw_flag, stack, keypad,
                       delay_timer, sound_timer >>

\* SYS addr
op_0nnn(addr) ==
  UNCHANGED << machine, status >>

\* JP addr
op_1nnn(addr) ==
  /\ pc' = addr
  /\ UNCHANGED << ram, i, vx, display, draw_flag, stack, sp, keypad,
                  delay_timer, sound_timer, status >>

\* CALL storing the address of the CALL itself
op_2nnn_own_address(addr) ==
  IF sp >= STACK_SIZE
  THEN /\ status' = "panicked"
       /\ UNCHANGED machine
  ELSE /\ stack' = [stack EXCEPT ![sp] = pc - 2]
       /\ sp' = sp + 1
       /\ pc' = addr
       /\ UNCHANGED << ram, i, vx, display, draw_flag, keypad, delay_timer,
                       sound_timer, status >>

\* CALL that drops the return address when the stack is full
op_2nnn_silent(addr) ==
  IF sp >= STACK_SIZE
  THEN /\ sp' = sp + 1
       /\ pc' = addr
       /\ UNCHANGED << ram, i, vx, display, draw_flag, stack, keypad,
                       delay_timer, sound_timer, status >>
  ELSE /\ stack' = [stack EXCEPT ![sp] = pc]
       /\ sp' = sp + 1
       /\ pc' = addr
       /\ UNCHANGED << ram, i, vx, display, draw_flag, keypad, delay_timer,
                       sound_timer, status >>

\* CALL addr
op_2nnn(addr) ==
  IF sp >= STACK_SIZE
  THEN /\ status' = "panicked"
       /\ UNCHANGED machine
  ELSE /\ stack' = [stack EXCEPT ![sp] = pc]
       /\ sp' = sp + 1
       /\ pc' = addr
       /\ UNCHANGED << ram, i, vx, display, draw_flag, keypad, delay_timer,
                       sound_timer, status >>

\* the common shape of the four conditional skips
SkipIf(cond) ==
  /\ pc' = IF cond THEN pc + 2 ELSE pc
  /\ UNCHANGED << ram, i, vx, display, draw_flag, stack, sp, keypad,
                  delay_timer, sound_timer, status >>

\* SE Vx, byte
op_3xnn(x, nn) == SkipIf(vx[x] = nn)

\* a 4XNN that skips on equality
op_4xnn_equal(x, nn) == SkipIf(vx[x] = nn)

\* SNE Vx, byte
op_4xnn(x, nn) == SkipIf(vx[x] # nn)

\* SE Vx, Vy
op_5xy0(x, y) == SkipIf(vx[x] = vx[y])

\* the common frame of the handlers that write registers only
SetRegisters(new_vx) ==
  /\ vx' = new_vx
  /\ UNCHANGED << ram, pc, i, display, draw_flag, stack, sp, keypad,
                  delay_timer, sound_timer, status >>

\* LD Vx, byte
op_6xnn(x, nn) == SetRegisters([vx EXCEPT ![x] = nn])

\* ADD Vx, byte that reports the carry in VF
op_7xnn_carry(x, nn) ==
  LET vx1 == [vx EXCEPT ![x] = WrappingAdd8(vx[x], nn)]
  IN SetRegisters([vx1 EXCEPT ![15] = IF vx[x] + nn > 255 THEN 1 ELSE 0])

\* ADD Vx, byte
op_7xnn(x, nn) == SetRegisters([vx EXCEPT ![x] = WrappingAdd8(vx[x], nn)])

\* LD Vx, Vy
op_8xy0(x, y) == SetRegisters([vx EXCEPT ![x] = vx[y]])

\* OR Vx, Vy
op_8xy1(x, y) == SetRegisters([vx EXCEPT ![x] = BitOr(vx[x], vx[y])])

\* AND Vx, Vy
op_8xy2(x, y) == SetRegisters([vx EXCEPT ![x] = BitAnd(vx[x], vx[y])])

\* XOR Vx, Vy
op_8xy3(x, y) == SetRegisters([vx EXCEPT ![x] = BitXor(vx[x], vx[y])])

\* ADD Vx, Vy summing in 8 bits, so that the carry is lost
op_8xy4_narrow(x, y) ==
  LET sum == WrappingAdd8(vx[x], vx[y])
      carry == IF sum > 255 THEN 1 ELSE 0
      vx1 == [vx EXCEPT ![x] = BitAnd(sum, 255)]
  IN SetRegisters([vx1 EXCEPT ![15] = carry])

\* ADD Vx, Vy: the result is stored first, the carry last
op_8xy4(x, y) ==
  LET val_x == vx[x]
      val_y == vx[y]
      sum == val_x + val_y
      carry == IF sum > 255 THEN 1 ELSE 0
      vx1 == [vx EXCEPT ![x] = BitAnd(sum, 255)]
  IN SetRegisters([vx1 EXCEPT ![15] = carry])

\* SUB Vx, Vy with the flag of a borrow: 1 only if Vx > Vy
op_8xy5_strict(x, y) ==
  LET vx1 == [vx EXCEPT ![15] = IF vx[x] > vx[y] THEN 1 ELSE 0]
  IN SetRegisters([vx1 EXCEPT ![x] = WrappingSub8(vx1[x], vx1[y])])

\* SUB Vx, Vy: the flag is stored first, the difference reads the registers
\* after that
op_8xy5(x, y) ==
  LET vx1 == [vx EXCEPT ![15] = IF vx[x] >= vx[y] THEN 1 ELSE 0]
  IN SetRegisters([vx1 EXCEPT ![x] = WrappingSub8(vx1[x], vx1[y])])

\* SHR that shifts Vy into Vx
op_8xy6_from_vy(x, y) ==
  LET vx1 == [vx EXCEPT ![15] = BitAnd(vx[y], 1)]
  IN SetRegisters([vx1 EXCEPT ![x] = Shr(vx1[y], 1)])

\* SHR Vx
op_8xy6(x, y) ==
  LET vx1 == [vx EXCEPT ![15] = BitAnd(vx[x], 1)]
  IN SetRegisters([vx1 EXCEPT ![x] = Shr(vx1[x], 1)])

\* SUBN Vx, Vy
op_8xy7(x, y) ==
  LET vx1 == [vx EXCEPT ![15] = IF vx[y] >= vx[x] THEN 1 ELSE 0]
  IN SetRegisters([vx1 EXCEPT ![x] = WrappingSub8(vx1[y], vx1[x])])

\* SHL Vx
op_8xye(x, y) ==
  LET vx1 == [vx EXCEPT ![15] = Shr(BitAnd(vx[x], 128), 7)]
  IN SetRegisters([vx1 EXCEPT ![x] = Shl8(vx1[x], 1)])

\* SNE Vx, Vy
op_9xy0(x, y) == SkipIf(vx[x] # vx[y])

\* the common frame of the handlers that write the index register only
SetIndex(new_i) ==
  /\ i' = new_i
  /\ UNCHANGED << ram, pc, vx, display, draw_flag, stack, sp, keypad,
                  delay_timer, sound_timer, status >>

\* LD I, addr
op_annn(addr) == SetIndex(addr)

\* JP V0, addr
op_bnnn(addr) ==
  /\ pc' = addr + vx[0]
  /\ UNCHANGED << ram, i, vx, display, draw_flag, stack, sp, keypad,
                  delay_timer, sound_timer, status >>

\* RND Vx, byte
op_cxnn(x, nn) ==
  \E random_byte \in RandBytes :
    SetRegisters([vx EXCEPT ![x] = BitAnd(random_byte, nn)])

(***************************************************************************)
(* DRW Vx, Vy, nibble.  st is [display, vf, ok]: the display and VF as the *)
(* loops have left them, ok FALSE once ram was indexed out of range.       *)
(***************************************************************************)
\* the columns of a sprite row clipped at the right edge instead of wrapped
RECURSIVE DrawColsClipped(_, _, _, _, _)
DrawColsClipped(st, sprite_byte, x_coord, current_y, col) ==
  IF col = 8 THEN st
  ELSE LET current_x == x_coord + col
           mask == Shr(128, col)
           screen_idx == current_x + (current_y * DISPLAY_WIDTH)
           next == IF BitAnd(sprite_byte, mask) # 0 /\ current_x < DISPLAY_WIDTH
                   THEN [st EXCEPT
                           !.vf = IF Rd(st.display, screen_idx) = 1
                                  THEN 1 ELSE st.vf,
                           !.display = Wr(st.display, screen_idx,
                                          BitXor(Rd(st.display, screen_idx), 1))]
                   ELSE st
       IN DrawColsClipped(next, sprite_byte, x_coord, current_y, col + 1)

\* the columns of a sprite row ORed onto the display
RECURSIVE DrawColsOr(_, _, _, _, _)
DrawColsOr(st, sprite_byte, x_coord, current_y, col) ==
  IF col = 8 THEN st
  ELSE LET current_x == (x_coord + col) % DISPLAY_WIDTH
           mask == Shr(128, col)
           screen_idx == current_x + (current_y * DISPLAY_WIDTH)
           next == IF BitAnd(sprite_byte, mask) # 0
                   THEN [st EXCEPT
                           !.vf = IF Rd(st.display, screen_idx) = 1
                                  THEN 1 ELSE st.vf,
                           !.display = Wr(st.display, screen_idx,
                                          BitOr(Rd(st.display, screen_idx), 1))]
                   ELSE st
       IN DrawColsOr(next, sprite_byte, x_coord, current_y, col + 1)

\* a row drawn by adding the sprite bit to the cell
RECURSIVE DrawColsAdd(_, _, _, _, _)
DrawColsAdd(st, sprite_byte, x_coord, current_y, col) ==
  IF col = 8 THEN st
  ELSE LET current_x == (x_coord + col) % DISPLAY_WIDTH
           mask == Shr(128, col)
           screen_idx == current_x + (current_y * DISPLAY_WIDTH)
           next == IF BitAnd(sprite_byte, mask) # 0
                   THEN [st EXCEPT
                           !.vf = IF Rd(st.display, screen_idx) = 1
                                  THEN 1 ELSE st.vf,
                           !.display = Wr(st.display, screen_idx,
                                          Rd(st.display, screen_idx) + 1)]
                   ELSE st
       IN DrawColsAdd(next, sprite_byte, x_coord, current_y, col + 1)

RECURSIVE DrawCols(_, _, _, _, _)
DrawCols(st, sprite_byte, x_coord, current_y, col) ==
  IF col = 8 THEN st
  ELSE LET current_x == (x_coord + col) % DISPLAY_WIDTH
           mask == Shr(128, col)
           screen_idx == current_x + (current_y * DISPLAY_WIDTH)
           next == IF BitAnd(sprite_byte, mask) # 0
                   THEN [st EXCEPT
                           !.vf = IF Rd(st.display, screen_idx) = 1
                                  THEN 1 ELSE st.vf,
                           !.display = Wr(st.display, screen_idx,
                                          BitXor(Rd(st.display, screen_idx), 1))]
                   ELSE st
       IN DrawCols(next, sprite_byte, x_coord, current_y, col + 1)

RECURSIVE DrawRows(_, _, _, _, _)
DrawRows(st, x_coord, y_coord, height, row) ==
  IF row = height \/ ~st.ok THEN st
  ELSE IF i + row >= RAM_SIZE THEN [st EXCEPT !.ok = FALSE]
  ELSE LET current_y == (y_coord + row) % DISPLAY_HEIGHT
           sprite_byte == Rd(ram, i + row)
       IN DrawRows(DrawCols(st, sprite_byte, x_coord, current_y, 0),
                   x_coord, y_coord, height, row + 1)

op_dxyn(x_idx, y_idx, height) ==
  LET x_coord == vx[x_idx] % DISPLAY_WIDTH
      y_coord == vx[y_idx] % DISPLAY_HEIGHT
      st == DrawRows([display |-> display, vf |-> 0, ok |-> TRUE],
                     x_coord, y_coord, height, 0)
  IN /\ vx' = [vx EXCEPT ![15] = st.vf]
     /\ display' = st.display
     /\ draw_flag' = IF st.ok THEN TRUE ELSE draw_flag
     /\ status' = IF st.ok THEN status ELSE "panicked"
     /\ UNCHANGED << ram, pc, i, stack, sp, keypad, delay_timer,
                     sound_timer >>

\* SKP Vx
op_ex9e(x) ==
  IF vx[x] >= NUM_KEYS
  THEN status' = "panicked" /\ UNCHANGED machine
  ELSE SkipIf(keypad[vx[x]])

\* SKNP Vx
op_exa1(x) ==
  IF vx[x] >= NUM_KEYS
  THEN status' = "panicked" /\ UNCHANGED machine
  ELSE SkipIf(~keypad[vx[x]])

\* LD Vx, DT
op_fx07(x) == SetRegisters([vx EXCEPT ![x] = delay_timer])

\* LD Vx, K: the scan starts at key 1
RECURSIVE FirstPressed(_)
FirstPressed(k) ==
  IF k >= NUM_KEYS THEN NUM_KEYS
  ELSE IF keypad[k] THEN k
  ELSE FirstPressed(k + 1)

\* a key-wait whose scan starts at key 0
op_fx0a_from_zero(x) ==
  LET key == FirstPressed(0)
      key_pressed == key < NUM_KEYS
  IN /\ vx' = IF key_pressed THEN [vx EXCEPT ![x] = key] ELSE vx
     /\ pc' = IF key_pressed THEN pc ELSE pc - 2
     /\ UNCHANGED << ram, i, display, draw_flag, stack, sp, keypad,
                     delay_timer, sound_timer, status >>

op_fx0a(x) ==
  LET key == FirstPressed(1)
      key_pressed == key < NUM_KEYS
  IN /\ vx' = IF key_pressed THEN [vx EXCEPT ![x] = key] ELSE vx
     /\ pc' = IF key_pressed THEN pc ELSE pc - 2
     /\ UNCHANGED << ram, i, display, draw_flag, stack, sp, keypad,
                     delay_timer, sound_timer, status >>

\* LD DT, Vx
op_fx15(x) ==
  /\ delay_timer' = vx[x]
  /\ UNCHANGED << ram, pc, i, vx, display, draw_flag, stack, sp, keypad,
                  sound_timer, status >>

\* LD ST, Vx
op_fx18(x) ==
  /\ sound_timer' = vx[x]
  /\ UNCHANGED << ram, pc, i, vx, display, draw_flag, stack, sp, keypad,
                  delay_timer, status >>

\* ADD I, Vx.  A sum above 65535 panics in a build with overflow checks and
\* wraps in a build without.
op_fx1e(x) ==
  IF i + vx[x] > 65535
  THEN \E overflow_checks \in BOOLEAN :
         IF overflow_checks
         THEN status' = "panicked" /\ UNCHANGED machine
         ELSE SetIndex((i + vx[x]) % 65536)
  ELSE SetIndex(i + vx[x])

\* LD F, Vx
op_fx29(x) ==
  LET character == vx[x]
  IN SetIndex(FONT_START_ADDR + (character * 5))

\* LD B, Vx with the ones digit first
op_fx33_reversed(x) ==
  LET value == vx[x]
      ram1 == Wr(ram, i, value % 10)
      ram2 == Wr(ram1, i + 1, (value \div 10) % 10)
      ram3 == Wr(ram2, i + 2, value \div 100)
  IN /\ ram' = IF i >= RAM_SIZE THEN ram
               ELSE IF i + 1 >= RAM_SIZE THEN ram1
               ELSE IF i + 2 >= RAM_SIZE THEN ram2
               ELSE ram3
     /\ status' = IF i + 2 >= RAM_SIZE THEN "panicked" ELSE status
     /\ UNCHANGED << pc, i, vx, display, draw_flag, stack, sp, keypad,
                     delay_timer, sound_timer >>

\* LD B, Vx: three writes, each of which may index ram out of range
op_fx33(x) ==
  LET value == vx[x]
      ram1 == Wr(ram, i, value \div 100)
      ram2 == Wr(ram1, i + 1, (value \div 10) % 10)
      ram3 == Wr(ram2, i + 2, value % 10)
  IN /\ ram' = IF i >= RAM_SIZE THEN ram
               ELSE IF i + 1 >= RAM_SIZE THEN ram1
               ELSE IF i + 2 >= RAM_SIZE THEN ram2
               ELSE ram3
     /\ status' = IF i + 2 >= RAM_SIZE THEN "panicked" ELSE status
     /\ UNCHANGED << pc, i, vx, display, draw_flag, stack, sp, keypad,
                     delay_timer, sound_timer >>

\* a store of V0 up to, but not including, Vx
RECURSIVE StoreRegistersExclusive(_, _, _)
StoreRegistersExclusive(st, x, k) ==
  IF k >= x THEN st
  ELSE IF i + k >= RAM_SIZE THEN [st EXCEPT !.ok = FALSE]
  ELSE StoreRegistersExclusive([st EXCEPT !.ram = Wr(st.ram, i + k, vx[k])],
                               x, k + 1)

\* LD [I], Vx.  st is [ram, ok].
RECURSIVE StoreRegisters(_, _, _)
StoreRegisters(st, x, k) ==
  IF k > x THEN st
  ELSE IF i + k >= RAM_SIZE THEN [st EXCEPT !.ok = FALSE]
  ELSE StoreRegisters([st EXCEPT !.ram = Wr(st.ram, i + k, vx[k])], x, k + 1)

op_fx55(x) ==
  LET st == StoreRegisters([ram |-> ram, ok |-> TRUE], x, 0)
  IN /\ ram' = st.ram
     /\ status' = IF st.ok THEN status ELSE "panicked"
     /\ UNCHANGED << pc, i, vx, display, draw_flag, stack, sp, keypad,
                     delay_timer, sound_timer >>

\* LD Vx, [I].  st is [vx, ok].
RECURSIVE LoadRegisters(_, _, _)
LoadRegisters(st, x, k) ==
  IF k > x THEN st
  ELSE IF i + k >= RAM_SIZE THEN [st EXCEPT !.ok = FALSE]
  ELSE LoadRegisters([st EXCEPT !.vx = [st.vx EXCEPT ![k] = Rd(ram, i + k)]],
                     x, k + 1)

\* FX65 taking the arm of FX55
op_fx65_stores(x) ==
  LET st == StoreRegisters([ram |-> ram, ok |-> TRUE], x, 0)
  IN /\ ram' = st.ram
     /\ status' = IF st.ok THEN status ELSE "panicked"
     /\ UNCHANGED << pc, i, vx, display, draw_flag, stack, sp, keypad,
                     delay_timer, sound_timer >>

op_fx65(x) ==
  LET st == LoadRegisters([vx |-> vx, ok |-> TRUE], x, 0)
  IN /\ vx' = st.vx
     /\ status' = IF st.ok THEN status ELSE "panicked"
     /\ UNCHANGED << ram, pc, i, display, draw_flag, stack, sp, keypad,
                     delay_timer, sound_timer >>

\* a fall-through arm that aborts the run
unknown_opcode_abort ==
  /\ status' = "panicked"
  /\ UNCHANGED machine

\* the fall-through arm of the match: the word is printed
unknown_opcode ==
  UNCHANGED << machine, status >>

(***************************************************************************)
(* Chip8::decode_execute: the arms of the match, in their order.           *)
(***************************************************************************)
decode_execute(word) ==
  LET primary == Shr(BitAnd(word, \hF000), 12)
      x == Shr(BitAnd(word, \h0F00), 8)
      y == Shr(BitAnd(word, \h00F0), 4)
      n == BitAnd(word, \h000F)
      nn == BitAnd(word, \h00FF)
      nnn == BitAnd(word, \h0FFF)
  IN IF primary = 0 /\ x = 0 /\ y = 14 /\ n = 0 THEN op_00e0
     ELSE IF primary = 0 /\ x = 0 /\ y = 14 /\ n = 14 THEN op_00ee
     ELSE IF primary = 0 THEN op_0nnn(nnn)
     ELSE IF primary = 1 THEN op_1nnn(nnn)
     ELSE IF primary = 2 THEN op_2nnn(nnn)
     ELSE IF primary = 3 THEN op_3xnn(x, nn)
     ELSE IF primary = 4 THEN op_4xnn(x, nn)
     ELSE IF primary = 5 /\ n = 0 THEN op_5xy0(x, y)
     ELSE IF primary = 6 THEN op_6xnn(x, nn)
     ELSE IF primary = 7 THEN op_7xnn(x, nn)
     ELSE IF primary = 8 /\ n = 0 THEN op_8xy0(x, y)
     ELSE IF primary = 8 /\ n = 1 THEN op_8xy1(x, y)
     ELSE IF primary = 8 /\ n = 2 THEN op_8xy2(x, y)
     ELSE IF primary = 8 /\ n = 3 THEN op_8xy3(x, y)
     ELSE IF primary = 8 /\ n = 4 THEN op_8xy4(x, y)
     ELSE IF primary = 8 /\ n = 5 THEN op_8xy5(x, y)
     ELSE IF primary = 8 /\ n = 6 THEN op_8xy6(x, y)
     ELSE IF primary = 8 /\ n = 7 THEN op_8xy7(x, y)
     ELSE IF primary = 8 /\ n = 14 THEN op_8xye(x, y)
     ELSE IF primary = 9 /\ n = 0 THEN op_9xy0(x, y)
     ELSE IF primary = 10 THEN op_annn(nnn)
     ELSE IF primary = 11 THEN op_bnnn(nnn)
     ELSE IF primary = 12 THEN op_cxnn(x, nn)
     ELSE IF primary = 13 THEN op_dxyn(x, y, n)
     ELSE IF primary = 14 /\ y = 9 /\ n = 14 THEN op_ex9e(x)
     ELSE IF primary = 14 /\ y = 10 /\ n = 1 THEN op_exa1(x)
     ELSE IF primary = 15 /\ y = 0 /\ n = 7 THEN op_fx07(x)
     ELSE IF primary = 15 /\ y = 0 /\ n = 10 THEN op_fx0a(x)
     ELSE IF primary = 15 /\ y = 1 /\ n = 5 THEN op_fx15(x)
     ELSE IF primary = 15 /\ y = 1 /\ n = 8 THEN op_fx18(x)
     ELSE IF primary = 15 /\ y = 1 /\ n = 14 THEN op_fx1e(x)
     ELSE IF primary = 15 /\ y = 2 /\ n = 9 THEN op_fx29(x)
     ELSE IF primary = 15 /\ y = 3 /\ n = 3 THEN op_fx33(x)
     ELSE IF primary = 15 /\ y = 5 /\ n = 5 THEN op_fx55(x)
     ELSE IF primary = 15 /\ y = 6 /\ n = 5 THEN op_fx65(x)
     ELSE unknown_opcode

\* The history of calls: a CALL that did not panic records the address that
\* follows it and the stack pointer it found; a RET that did not panic
\* forgets the latest record.
CallHistory ==
  IF status' # "running" THEN calls
  ELSE IF opcode \div 4096 = 2
       THEN Append(calls, [next |-> at + 2, sp |-> sp])
  ELSE IF opcode = 238 /\ Len(calls) > 0
       THEN SubSeq(calls, 1, Len(calls) - 1)
  ELSE calls

\* The history of the timers: an FX15 or FX18 that did not panic records the
\* register value it was given and starts the count of ticks anew.
TimerHistory ==
  LET written == [value |-> vx[(opcode \div 256) % 16], ticks |-> 0]
  IN IF status' # "running" \/ opcode \div 4096 # 15 THEN since
     ELSE IF opcode % 256 = 21 THEN [since EXCEPT !.delay = written]
     ELSE IF opcode % 256 = 24 THEN [since EXCEPT !.sound = written]
     ELSE since

DecodeExecute ==
  /\ status = "running"
  /\ phase = "fetched"
  /\ decode_execute(opcode)
  /\ phase' = "idle"
  /\ executed' = opcode
  /\ shown' = display
  /\ calls' = CallHistory
  /\ since' = TimerHistory
  /\ UNCHANGED << opcode, steps, loads, rom, at, frames >>

Next ==
  \/ LoadRom
  \/ Fetch
  \/ DecodeExecute
  \/ TickTimers
  \/ SetKey

Spec == Init /\ [][Next]_vars

(***************************************************************************)
(* The frame drivers: Chip8::run as main.rs calls it on a fresh machine    *)
(* with an image loaded, and Chip8Wasm, whose host calls set_key and tick. *)
(* The sound sink and the window's pacing hold no machine state and are    *)
(* left out; the window closing or Escape ends the loop between two        *)
(* iterations, which is a run that stops taking steps.                     *)
(***************************************************************************)
\* The host keys update_keypad polls, by keypad index.
KeyBinding ==
  [k \in 0..(NUM_KEYS - 1) |->
     << "X", "W", "Key2", "Key3", "Q", "W", "E", "A",
        "S", "D", "Z", "C", "K", "J", "F", "V" >>[k + 1]]

\* The host keys explored as held down.
HostKeys == {"X", "W", "Q"}

update_keypad(down) ==
  /\ keypad' = [k \in 0..(NUM_KEYS - 1) |-> KeyBinding[k] \in down]
  /\ UNCHANGED << ram, pc, i, vx, display, draw_flag, stack, sp,
                  delay_timer, sound_timer, status >>

\* The buffer built from the display: white where the cell is 1.
Buffer(cells) ==
  [k \in {a \in DOMAIN cells : cells[a] = 1} |-> 16777215]

\* The history of an iteration, as it starts.
Started == [frame EXCEPT !.stage = "cycles", !.cycle = 0, !.ticked = 0,
                         !.shows = 0, !.drew = FALSE]

\* main.rs main: Chip8::new, load_rom;  wasm.rs: Chip8Wasm::new, load_pong
RunLoad ==
  /\ status = "running"
  /\ frame.stage = "load"
  /\ \E r \in 1..Len(Roms), host \in {"native", "wasm"} :
       /\ load_rom(Roms[r], RomNonZero[r])
       /\ rom' = r
       /\ frame' = [frame EXCEPT !.host = host,
                      !.stage = IF host = "native" THEN "entry" ELSE "keys"]
  /\ loads' = loads + 1
  /\ UNCHANGED << phase, opcode, steps, at, executed, shown, calls, since,
                  screen >>

\* Chip8::run, up to the loop
Run ==
  /\ status = "running"
  /\ frame.stage = "entry"
  /\ IF pc >= START_ADDR
     THEN /\ frame' = [frame EXCEPT !.stage = "keys"]
          /\ UNCHANGED status
     ELSE /\ status' = "panicked"
          /\ UNCHANGED frame
  /\ UNCHANGED << ram, pc, i, vx, display, draw_flag, stack, sp, keypad,
                  delay_timer, sound_timer, phase, opcode, steps, loads,
                  history, screen >>

\* Chip8::run, step 1 of an iteration
UpdateKeypad ==
  /\ status = "running"
  /\ frame.host = "native"
  /\ frame.stage = "keys"
  /\ frame.count < MaxFrames
  /\ \E down \in SUBSET HostKeys :
       /\ Cardinality(down) <= MaxPressed
       /\ update_keypad(down)
  /\ frame' = Started
  /\ UNCHANGED << phase, opcode, steps, loads, history, screen >>

\* Chip8Wasm::set_key, between two calls of tick
WasmSetKey ==
  /\ status = "running"
  /\ frame.host = "wasm"
  /\ frame.stage = "keys"
  /\ \E key \in KeyChoices, pressed \in BOOLEAN : set_key(key, pressed)
  /\ Cardinality({k \in DOMAIN keypad : keypad'[k]}) <= MaxPressed
  /\ UNCHANGED << phase, opcode, steps, loads, history, frames >>

\* Chip8Wasm::tick is called
WasmTick ==
  /\ status = "running"
  /\ frame.host = "wasm"
  /\ frame.stage = "keys"
  /\ frame.count < MaxFrames
  /\ frame' = Started
  /\ UNCHANGED << machine, driver, history, screen >>

\* Chip8::run step 2 and Chip8Wasm::tick: for _ in 0..10, the fetch
RunFetch ==
  /\ status = "running"
  /\ frame.stage = "cycles"
  /\ phase = "idle"
  /\ frame.cycle < CYCLES_PER_FRAME
  /\ fetch
  /\ phase' = IF status' = "running" THEN "fetched" ELSE phase
  /\ steps' = steps + 1
  /\ at' = pc
  /\ UNCHANGED << ram, i, vx, display, draw_flag, stack, sp, keypad,
                  delay_timer, sound_timer, loads, rom, executed, shown,
                  calls, since, frames >>

\* ... and the decode_execute, after the last of which the loop is left
RunDecodeExecute ==
  /\ status = "running"
  /\ frame.stage = "cycles"
  /\ phase = "fetched"
  /\ decode_execute(opcode)
  /\ phase' = "idle"
  /\ executed' = opcode
  /\ shown' = display
  /\ calls' = CallHistory
  /\ since' = TimerHistory
  /\ frame' = [frame EXCEPT
                 !.cycle = frame.cycle + 1,
                 !.drew = frame.drew \/ opcode = 224 \/ opcode \div 4096 = 13,
                 !.stage = IF frame.cycle + 1 < CYCLES_PER_FRAME
                           THEN "cycles" ELSE "timers"]
  /\ UNCHANGED << opcode, steps, loads, rom, at, screen >>

\* Chip8::run step 3 and the end of Chip8Wasm::tick
RunTickTimers ==
  /\ status = "running"
  /\ frame.stage = "timers"
  /\ tick_timers
  /\ frame' = IF frame.host = "native"
              THEN [frame EXCEPT !.ticked = frame.ticked + 1,
                                 !.stage = "render"]
              ELSE [frame EXCEPT !.ticked = frame.ticked + 1,
                                 !.stage = "keys",
                                 !.count = frame.count + 1]
  /\ UNCHANGED << driver, history, screen >>

\* a step 4 that leaves the flag set
RenderFlagKept ==
  /\ status = "running"
  /\ frame.stage = "render"
  /\ IF draw_flag
     THEN /\ screen' = Buffer(display)
          /\ frame' = [frame EXCEPT !.shows = frame.shows + 1,
                                    !.stage = "keys",
                                    !.count = frame.count + 1]
     ELSE /\ frame' = [frame EXCEPT !.stage = "keys",
                                    !.count = frame.count + 1]
          /\ UNCHANGED screen
  /\ UNCHANGED << machine, driver, history >>

\* Chip8::run, step 4 of an iteration
Render ==
  /\ status = "running"
  /\ frame.stage = "render"
  /\ IF draw_flag
     THEN /\ screen' = Buffer(display)
          /\ draw_flag' = FALSE
          /\ frame' = [frame EXCEPT !.shows = frame.shows + 1,
                                    !.stage = "keys",
                                    !.count = frame.count + 1]
     ELSE /\ frame' = [frame EXCEPT !.stage = "keys",
                                    !.count = frame.count + 1]
          /\ UNCHANGED << screen, draw_flag >>
  /\ UNCHANGED << ram, pc, i, vx, display, stack, sp, keypad, delay_timer,
                  sound_timer, driver, history >>

NextRun ==
  \/ RunLoad
  \/ Run
  \/ UpdateKeypad
  \/ WasmSetKey
  \/ WasmTick
  \/ RunFetch
  \/ RunDecodeExecute
  \/ RunTickTimers
  \/ Render

SpecRun == Init /\ [][NextRun]_vars

(***************************************************************************)
(* Vocabulary of the properties.  The fields of an instruction word are    *)
(* taken arithmetically; the steps are told apart by the driver's          *)
(* counters and position.                                                  *)
(***************************************************************************)
Primary(word) == word \div 4096

FieldX(word) == (word \div 256) % 16

FieldY(word) == (word \div 16) % 16

FieldN(word) == word % 16

FieldNN(word) == word % 256

FieldNNN(word) == word % 4096

\* this step is a call of fetch
FetchStep == steps' = steps + 1

\* this step is a call of load_rom
LoadStep == loads' = loads + 1

\* this step is a call of decode_execute on the fetched word
ExecStep == phase = "fetched" /\ phase' = "idle"

\* this step is a call of decode_execute that returned
Executed == ExecStep /\ status' = "running"

(***************************************************************************)
(* C1.  In every state with pc + 1 < 4096, fetch returns the big-endian    *)
(* word ram[pc] * 256 + ram[pc + 1], advances pc by exactly 2 and changes  *)
(* nothing else; the first fetch after load_rom of an image of at least 2  *)
(* and fewer than 3584 bytes returns rom[0] * 256 + rom[1] and leaves      *)
(* pc = 0x202.                                                             *)
(***************************************************************************)
FirstFetchOf(data) ==
  /\ executed = -1
  /\ Len(data) >= 2
  /\ Len(data) < 3584

C1_FetchStep ==
  FetchStep /\ pc + 1 < 4096 =>
    /\ opcode' = Rd(ram, pc) * 256 + Rd(ram, pc + 1)
    /\ pc' = pc + 2
    /\ status' = "running"
    /\ UNCHANGED << ram, i, vx, display, draw_flag, stack, sp, keypad,
                    delay_timer, sound_timer >>
    /\ FirstFetchOf(Roms[rom]) =>
         /\ opcode' = Roms[rom][1] * 256 + Roms[rom][2]
         /\ pc' = 514

C1_Fetch == [][C1_FetchStep]_vars

\* the first fetch of the image of test_fetch has returned 0x1234
C1_Witness ==
  /\ phase = "fetched"
  /\ executed = -1
  /\ Roms[rom] = RomFetch
  /\ opcode = 4660
  /\ pc = 514

(***************************************************************************)
(* C2.  load_rom never fails, whatever the state and the length L of the   *)
(* image: it sets pc to 0x200, copies exactly the first min(L, 3584) bytes *)
(* to ram[0x200 .. 0x200 + min(L, 3584)), drops the rest, and changes      *)
(* nothing else: memory outside the copied range, registers, index         *)
(* register, stack, stack pointer, timers, keypad and display stay.        *)
(***************************************************************************)
\* Where ram, ram' or the image hold a non-zero byte; at every other
\* address both the memory after the load and the memory C2 asks for are 0.
LoadCells(data) ==
  DOMAIN ram \cup DOMAIN ram' \cup {511 + k : k \in NonZero(data)}

C2_LoadStep ==
  LoadStep =>
    LET data == Roms[rom']
        copied == IF Len(data) <= 3584 THEN Len(data) ELSE 3584
    IN /\ status' = "running"
       /\ pc' = 512
       /\ \A a \in LoadCells(data) :
            Rd(ram', a) = IF a >= 512 /\ a < 512 + copied
                          THEN data[a - 511]
                          ELSE Rd(ram, a)
       /\ DOMAIN ram' \subseteq 0..4095
       /\ UNCHANGED << i, vx, display, draw_flag, stack, sp, keypad,
                       delay_timer, sound_timer >>

C2_LoadRom == [][C2_LoadStep]_vars

\* load_rom is possible in every state in which the machine has not
\* panicked and the driver is between two cycles
C2_Witness ==
  /\ loads = 2
  /\ Len(Roms[rom]) < 3584
  /\ Rd(ram, 4095) # 0
  /\ Rd(ram, 512 + Len(Roms[rom])) # 0
  /\ vx[10] # 0
  /\ pc = 512

(***************************************************************************)
(* C3.  Call/return is a LIFO round trip: with sp = k < 16, CALL NNN       *)
(* stores the post-fetch pc in stack[k], sets sp to k + 1 and pc to NNN; a *)
(* later RET balanced with it sets pc back to the address of the           *)
(* instruction that follows that CALL, and sp back to k.  Nested calls     *)
(* return in the reverse order of the calls.                               *)
(***************************************************************************)
C3_CallReturnStep ==
  /\ ExecStep /\ Primary(opcode) = 2 /\ sp < 16 =>
       /\ status' = "running"
       /\ pc = at + 2
       /\ stack'[sp] = pc
       /\ sp' = sp + 1
       /\ pc' = FieldNNN(opcode)
  /\ ExecStep /\ opcode = 238 /\ Len(calls) > 0 =>
       /\ status' = "running"
       /\ pc' = calls[Len(calls)].next
       /\ sp' = calls[Len(calls)].sp

C3_CallReturn == [][C3_CallReturnStep]_vars

\* the two nested calls of RomCall have both returned
C3_Witness ==
  /\ rom > 0
  /\ Roms[rom] = RomCall
  /\ executed = 238
  /\ phase = "idle"
  /\ pc = 514
  /\ sp = 0
  /\ stack[0] = 514
  /\ stack[1] = 520
  /\ calls = << >>

(***************************************************************************)
(* What the flag-setting instructions 8XY4, 8XY5, 8XY6, 8XY7 and 8XYE are  *)
(* to compute from the registers they find.                                *)
(***************************************************************************)
AluResult(word, regs) ==
  LET a == regs[FieldX(word)]
      b == regs[FieldY(word)]
  IN CASE FieldN(word) = 4 -> (a + b) % 256
       [] FieldN(word) = 5 -> (a - b) % 256
       [] FieldN(word) = 6 -> a \div 2
       [] FieldN(word) = 7 -> (b - a) % 256
       [] FieldN(word) = 14 -> (2 * a) % 256

AluFlag(word, regs) ==
  LET a == regs[FieldX(word)]
      b == regs[FieldY(word)]
  IN CASE FieldN(word) = 4 -> IF a + b > 255 THEN 1 ELSE 0
       [] FieldN(word) = 5 -> IF a >= b THEN 1 ELSE 0
       [] FieldN(word) = 6 -> a % 2
       [] FieldN(word) = 7 -> IF b >= a THEN 1 ELSE 0
       [] FieldN(word) = 14 -> a \div 128

(***************************************************************************)
(* C4.  8XY4 with x and y other than F: Vx = (Vx + Vy) mod 256 and VF = 1  *)
(* if Vx + Vy > 255, else 0; every other register, the index register, pc, *)
(* memory, stack, timers and display are unchanged.                        *)
(***************************************************************************)
C4_AddStep ==
  ExecStep /\ Primary(opcode) = 8 /\ FieldN(opcode) = 4
           /\ FieldX(opcode) # 15 /\ FieldY(opcode) # 15 =>
    /\ vx'[FieldX(opcode)] = (vx[FieldX(opcode)] + vx[FieldY(opcode)]) % 256
    /\ vx'[15] = IF vx[FieldX(opcode)] + vx[FieldY(opcode)] > 255 THEN 1 ELSE 0
    /\ \A r \in 0..14 : r # FieldX(opcode) => vx'[r] = vx[r]
    /\ UNCHANGED << i, pc, ram, stack, sp, delay_timer, sound_timer, display >>

C4_AddCarry == [][C4_AddStep]_vars

\* ADD V3, V2 of RomAlu has carried: 125 + 250 = 119 + 256
C4_Witness ==
  /\ executed = 33572
  /\ phase = "idle"
  /\ vx[1] = 125
  /\ vx[2] = 250
  /\ vx[3] = 119
  /\ vx[15] = 1

(***************************************************************************)
(* C5.  7XNN with x other than F: Vx = (Vx + NN) mod 256 and VF keeps its  *)
(* value, also when the addition overflows; 6XNN sets Vx = NN and leaves   *)
(* VF unchanged.                                                           *)
(***************************************************************************)
C5_ImmediateStep ==
  /\ ExecStep /\ Primary(opcode) = 7 /\ FieldX(opcode) # 15 =>
       /\ vx'[FieldX(opcode)] = (vx[FieldX(opcode)] + FieldNN(opcode)) % 256
       /\ vx'[15] = vx[15]
  /\ ExecStep /\ Primary(opcode) = 6 /\ FieldX(opcode) # 15 =>
       /\ vx'[FieldX(opcode)] = FieldNN(opcode)
       /\ vx'[15] = vx[15]

C5_Immediate == [][C5_ImmediateStep]_vars

\* ADD V3, 0xAB of RomAlu has overflowed (119 + 171 = 34 + 256) with VF = 1
C5_Witness ==
  /\ executed = 29611
  /\ phase = "idle"
  /\ vx[3] = 34
  /\ vx[15] = 1

(***************************************************************************)
(* C6.  Subtraction uses the NOT-borrow convention: with x and y other     *)
(* than F, 8XY5 leaves Vx = (Vx - Vy) mod 256 and VF = 1 if Vx >= Vy else  *)
(* 0, and 8XY7 leaves Vx = (Vy - Vx) mod 256 and VF = 1 if Vy >= Vx else   *)
(* 0; equal operands give 0 with VF = 1.                                   *)
(***************************************************************************)
C6_SubStep ==
  /\ ExecStep /\ Primary(opcode) = 8 /\ FieldN(opcode) = 5
              /\ FieldX(opcode) # 15 /\ FieldY(opcode) # 15 =>
       /\ vx'[FieldX(opcode)] = (vx[FieldX(opcode)] - vx[FieldY(opcode)]) % 256
       /\ vx'[15] = IF vx[FieldX(opcode)] >= vx[FieldY(opcode)] THEN 1 ELSE 0
  /\ ExecStep /\ Primary(opcode) = 8 /\ FieldN(opcode) = 7
              /\ FieldX(opcode) # 15 /\ FieldY(opcode) # 15 =>
       /\ vx'[FieldX(opcode)] = (vx[FieldY(opcode)] - vx[FieldX(opcode)]) % 256
       /\ vx'[15] = IF vx[FieldY(opcode)] >= vx[FieldX(opcode)] THEN 1 ELSE 0

C6_Sub == [][C6_SubStep]_vars

\* SUB V4, V2 of RomAlu on equal non-zero operands
C6_Witness ==
  /\ executed = 33829
  /\ phase = "idle"
  /\ vx[1] = 250
  /\ vx[2] = 250
  /\ vx[4] = 0
  /\ vx[15] = 1

(***************************************************************************)
(* C7.  When VF is an operand of 8XY4, 8XY5, 8XY7, 8XY6 or 8XYE (x = F or  *)
(* y = F), flag and result are computed from the registers held before the *)
(* instruction; afterwards VF holds the flag and, when x is not F, Vx      *)
(* holds the result.                                                       *)
(***************************************************************************)
FlagSetting(word) == Primary(word) = 8 /\ FieldN(word) \in {4, 5, 6, 7, 14}

C7_FlagOperandStep ==
  ExecStep /\ FlagSetting(opcode)
           /\ (FieldX(opcode) = 15 \/ FieldY(opcode) = 15) =>
    /\ vx'[15] = AluFlag(opcode, vx)
    /\ FieldX(opcode) # 15 => vx'[FieldX(opcode)] = AluResult(opcode, vx)

C7_FlagOperand == [][C7_FlagOperandStep]_vars

(***************************************************************************)
(* C8.  DXYN XORs with wraparound: exactly the pixels ((Vx mod 64 + c) mod *)
(* 64, (Vy mod 32 + r) mod 32) for which bit c (MSB first) of sprite row r *)
(* is set are toggled, every other pixel is unchanged, VF ends as 1 if a   *)
(* toggled pixel was 1 before the draw and as 0 otherwise, and the dirty   *)
(* flag is set, also when N = 0 or no pixel changes.                       *)
(***************************************************************************)
SpriteBit(r, c) == (Rd(ram, i + r) \div (2 ^ (7 - c))) % 2 = 1

\* the cells the draw of word is to toggle, from the state before it
Toggled(word) ==
  { (((vx[FieldX(word)] % 64) + rc[2]) % 64)
      + 64 * (((vx[FieldY(word)] % 32) + rc[1]) % 32) :
      rc \in {rc \in (0..(FieldN(word) - 1)) \X (0..7) :
                      SpriteBit(rc[1], rc[2])} }

C8_DrawStep ==
  ExecStep /\ Primary(opcode) = 13 /\ i + FieldN(opcode) <= 4096 =>
    LET toggled == Toggled(opcode)
    IN /\ status' = "running"
       /\ \A idx \in 0..2047 :
            Rd(display', idx) = IF idx \in toggled
                                THEN 1 - Rd(display, idx)
                                ELSE Rd(display, idx)
       /\ vx'[15] = IF \E idx \in toggled : Rd(display, idx) = 1 THEN 1 ELSE 0
       /\ draw_flag' = TRUE

C8_Draw == [][C8_DrawStep]_vars

\* glyph 1 drawn over glyph A at (61, 29): the sprite wraps at both edges
\* and collides with a part of what is shown
C8_Witness ==
  /\ executed = 53541
  /\ phase = "idle"
  /\ i = 85
  /\ vx[1] = 125
  /\ vx[2] = 125
  /\ vx[15] = 1
  /\ display # << >>
  /\ \E idx \in DOMAIN display : idx \notin DOMAIN shown
  /\ \E idx \in DOMAIN shown : idx \notin DOMAIN display

(***************************************************************************)
(* C9.  The same DXYN executed twice in a row, with coordinate registers   *)
(* other than VF, restores the display of before the first draw; if the    *)
(* first draw was onto clear pixels and the sprite has a set bit, the      *)
(* second draw leaves VF = 1.                                              *)
(***************************************************************************)
C9_RedrawStep ==
  ExecStep /\ Primary(opcode) = 13 /\ executed = opcode
           /\ FieldX(opcode) # 15 /\ FieldY(opcode) # 15
           /\ i + FieldN(opcode) <= 4096 =>
    /\ display' = shown
    /\ (Toggled(opcode) # {} /\ \A idx \in Toggled(opcode) : Rd(shown, idx) = 0)
         => vx'[15] = 1

C9_Redraw == [][C9_RedrawStep]_vars

\* the second DRW V1, V2, 5 of RomDraw has erased the glyph the first drew
C9_Witness ==
  /\ executed = 53541
  /\ phase = "idle"
  /\ at = 522
  /\ i = 130
  /\ shown # << >>
  /\ display = << >>
  /\ vx[15] = 1

(***************************************************************************)
(* C10.  00E0 sets all 2048 display cells to 0 and sets the dirty flag,    *)
(* and changes no register, no memory byte, not the stack, the timers or   *)
(* pc.                                                                     *)
(***************************************************************************)
C10_ClearStep ==
  ExecStep /\ opcode = 224 =>
    /\ \A idx \in 0..2047 : Rd(display', idx) = 0
    /\ draw_flag' = TRUE
    /\ UNCHANGED << vx, i, ram, stack, sp, delay_timer, sound_timer, pc >>

C10_Clear == [][C10_ClearStep]_vars

\* CLS of RomDraw has cleared a display that showed something
C10_Witness ==
  /\ executed = 224
  /\ phase = "idle"
  /\ shown # << >>
  /\ display = << >>
  /\ draw_flag

(***************************************************************************)
(* C11.  Key-wait (FX0A) suspends by retry and resumes on a key press:     *)
(* while no key is pressed, a cycle on the instruction leaves pc at the    *)
(* instruction's own address and registers, memory, stack and display      *)
(* unchanged; once any key of the 16-key keypad is pressed, the next cycle *)
(* stores that key's index in Vx and leaves pc at the following            *)
(* instruction.                                                            *)
(***************************************************************************)
KeyWait(word) == Primary(word) = 15 /\ FieldNN(word) = 10

Pressed == {k \in 0..15 : keypad[k]}

C11_KeyWaitStep ==
  /\ ExecStep /\ KeyWait(opcode) /\ Pressed = {} =>
       /\ status' = "running"
       /\ pc' = at
       /\ UNCHANGED << vx, i, ram, stack, sp, display >>
  /\ ExecStep /\ KeyWait(opcode) /\ Pressed # {} =>
       /\ status' = "running"
       /\ vx'[FieldX(opcode)] \in Pressed
       /\ pc' = at + 2

C11_KeyWait == [][C11_KeyWaitStep]_vars

(***************************************************************************)
(* C12.  A word that matches no defined pattern (5XYN and 9XYN with N # 0, *)
(* 8XYN with N in 8..D or F, EXNN other than 9E and A1, FXNN other than    *)
(* 07, 0A, 15, 18, 1E, 29, 33, 55, 65) is recoverable: decode_execute      *)
(* returns normally and leaves registers, index register, memory, stack,   *)
(* stack pointer, timers, display, dirty flag and the post-fetch pc        *)
(* unchanged.                                                              *)
(***************************************************************************)
Undefined(word) ==
  \/ Primary(word) \in {5, 9} /\ FieldN(word) # 0
  \/ Primary(word) = 8 /\ FieldN(word) \in {8, 9, 10, 11, 12, 13, 15}
  \/ Primary(word) = 14 /\ FieldNN(word) \notin {158, 161}
  \/ Primary(word) = 15 /\ FieldNN(word) \notin {7, 10, 21, 24, 30, 41, 51, 85, 101}

C12_UnknownStep ==
  ExecStep /\ Undefined(opcode) =>
    /\ status' = "running"
    /\ pc = at + 2
    /\ UNCHANGED << vx, i, ram, stack, sp, delay_timer, sound_timer, display,
                    draw_flag, pc >>

C12_Unknown == [][C12_UnknownStep]_vars

\* the eight undefined words of RomUnknown were passed over and the
\* instruction that follows them has run
C12_Witness ==
  /\ rom > 0
  /\ Roms[rom] = RomUnknown
  /\ executed = 27137
  /\ at = 528
  /\ pc = 530
  /\ steps = 9
  /\ vx[10] = 1
  /\ status = "running"

(***************************************************************************)
(* C13.  Timers saturate at zero: each tick_timers decrements the delay    *)
(* timer by 1 if it is non-zero and the sound timer by 1 if it is          *)
(* non-zero, independently, and leaves a zero timer at zero; after a timer *)
(* is written with v (FX15 / FX18) and n ticks follow with no further      *)
(* write, the timer equals max(0, v - n) whatever runs between the ticks;  *)
(* instruction cycles never change a timer except FX15 and FX18.           *)
(***************************************************************************)
Decremented(timer) == IF timer = 0 THEN 0 ELSE timer - 1

\* a step that is neither a load, a fetch, a decode_execute nor a key update
TickStep ==
  /\ phase = "idle" /\ phase' = "idle"
  /\ steps' = steps /\ loads' = loads /\ keypad' = keypad

C13_TimerStep ==
  /\ TickStep =>
       /\ delay_timer' = Decremented(delay_timer)
       /\ sound_timer' = Decremented(sound_timer)
  /\ FetchStep => UNCHANGED << delay_timer, sound_timer >>
  /\ ExecStep /\ ~(Primary(opcode) = 15 /\ FieldNN(opcode) = 21) =>
       delay_timer' = delay_timer
  /\ ExecStep /\ ~(Primary(opcode) = 15 /\ FieldNN(opcode) = 24) =>
       sound_timer' = sound_timer

Remaining(log) == IF log.value - log.ticks > 0 THEN log.value - log.ticks ELSE 0

C13_TimerCount ==
  /\ since.delay.value >= 0 => delay_timer = Remaining(since.delay)
  /\ since.sound.value >= 0 => sound_timer = Remaining(since.sound)

C13_Timers == [][C13_TimerStep]_vars /\ []C13_TimerCount

\* RomTimer wrote 3 and 2; four ticks later, with key-wait retries and the
\* resumed program between them, both timers rest at zero
C13_Witness ==
  /\ rom > 0
  /\ Roms[rom] = RomTimer
  /\ since.delay = [value |-> 3, ticks |-> 4]
  /\ since.sound = [value |-> 2, ticks |-> 4]
  /\ delay_timer = 0
  /\ sound_timer = 0
  /\ executed = 62727
  /\ vx[5] = 1
  /\ vx[6] = 5

(***************************************************************************)
(* C14.  Font lookup (FX29) uses the low nibble of the register: for every *)
(* 8-bit value of Vx, including values above 0x0F, it sets the index       *)
(* register to 0x050 + 5 * (Vx AND 0x0F), the start address of one of the  *)
(* 16 preloaded glyphs.                                                    *)
(***************************************************************************)
C14_FontLookupStep ==
  ExecStep /\ Primary(opcode) = 15 /\ FieldNN(opcode) = 41 =>
    /\ i' = 80 + 5 * (vx[FieldX(opcode)] % 16)
    /\ i' \in {80 + 5 * glyph : glyph \in 0..15}

C14_FontLookup == [][C14_FontLookupStep]_vars

(***************************************************************************)
(* C15.  Stack overflow and underflow are fatal, never silent: a CALL with *)
(* 16 return addresses on the stack and a RET with an empty stack each     *)
(* halt execution with an error instead of continuing; so in every state   *)
(* in which the machine is still running the stack pointer is between 0    *)
(* and 16 and the stack has no entry outside indices 0..15.                *)
(***************************************************************************)
C15_StackStep ==
  /\ ExecStep /\ Primary(opcode) = 2 /\ sp = 16 => status' = "panicked"
  /\ ExecStep /\ opcode = 238 /\ sp = 0 => status' = "panicked"
  /\ status = "panicked" => UNCHANGED vars

C15_StackBounds ==
  /\ status = "running" => sp \in 0..16
  /\ DOMAIN stack = 0..15

C15_StackFatal == [][C15_StackStep]_vars /\ []C15_StackBounds

\* the seventeenth nested CALL of RomRecurse has halted the machine
C15_Witness ==
  /\ rom > 0
  /\ Roms[rom] = RomRecurse
  /\ status = "panicked"
  /\ opcode = 8704
  /\ steps = 17
  /\ sp = 16
  /\ \A k \in 0..15 : stack[k] = 514

(***************************************************************************)
(* C16.  A new machine holds the 80-byte font table at ram[0x050..0x0A0)   *)
(* with every other memory byte and every other field zero; afterwards     *)
(* memory is written only by load_rom (at or above 0x200), FX33 and FX55:  *)
(* every other instruction, fetch and tick_timers leave all 4096 bytes     *)
(* unchanged, so the font table stays intact unless FX33 or FX55 runs with *)
(* the index register pointing into it.                                    *)
(***************************************************************************)
FontCells == 80..159

C16_New ==
  /\ \A a \in 0..4095 :
       Rd(ram, a) = IF a \in FontCells THEN FONT_SET[a - 79] ELSE 0
  /\ pc = 0 /\ i = 0 /\ sp = 0
  /\ \A r \in 0..15 : vx[r] = 0 /\ stack[r] = 0 /\ ~keypad[r]
  /\ \A idx \in 0..2047 : Rd(display, idx) = 0
  /\ ~draw_flag
  /\ delay_timer = 0 /\ sound_timer = 0

StoresBcd(word) == Primary(word) = 15 /\ FieldNN(word) = 51

StoresRegisters(word) == Primary(word) = 15 /\ FieldNN(word) = 85

\* the cells FX33 / FX55 is to write, from the state before it
StoreCells(word) ==
  IF StoresBcd(word) THEN i..(i + 2) ELSE i..(i + FieldX(word))

C16_MemoryStep ==
  /\ ram' # ram =>
       \/ LoadStep
       \/ ExecStep /\ (StoresBcd(opcode) \/ StoresRegisters(opcode))
  /\ LoadStep => \A a \in 0..511 : Rd(ram', a) = Rd(ram, a)
  /\ ExecStep /\ StoreCells(opcode) \cap FontCells = {} =>
       \A a \in FontCells : Rd(ram', a) = Rd(ram, a)

C16_Memory == C16_New /\ [][C16_MemoryStep]_vars

\* RomBlock has stored V0 = 0x90 over the first byte of the font table,
\* which stood untouched until then
C16_Witness ==
  /\ rom > 0
  /\ Roms[rom] = RomBlock
  /\ executed = 61525
  /\ i = 80
  /\ vx[0] = 144
  /\ Rd(ram, 80) = 144
  /\ \A a \in 81..159 : Rd(ram, a) = FONT_SET[a - 79]
  /\ Rd(ram, 768) = 5

(***************************************************************************)
(* C17.  In every state reachable from a new machine by load_rom, cycles,  *)
(* timer ticks and keypad updates, each of the 2048 display cells is 0 or  *)
(* 1; the display content changes only in a step that executes 00E0 or     *)
(* DXYN, and the dirty flag is set to true only by those two.              *)
(***************************************************************************)
C17_Cells ==
  /\ DOMAIN display \subseteq 0..2047
  /\ \A idx \in 0..2047 : Rd(display, idx) \in {0, 1}

C17_DisplayStep ==
  /\ display' # display => ExecStep /\ (opcode = 224 \/ Primary(opcode) = 13)
  /\ ~draw_flag /\ draw_flag' => ExecStep /\ (opcode = 224 \/ Primary(opcode) = 13)

C17_Display == []C17_Cells /\ [][C17_DisplayStep]_vars

\* RomDraw, with a key held down, has drawn a 15-row sprite over a glyph
C17_Witness ==
  /\ rom > 0
  /\ Roms[rom] = RomDraw
  /\ executed = 53791
  /\ keypad[5]
  /\ draw_flag
  /\ vx[15] = 1
  /\ Cardinality(DOMAIN display) > 20

(***************************************************************************)
(* C18.  Shifts report the bit shifted out: for x other than F and every   *)
(* y, 8XY6 leaves VF = Vx mod 2 and Vx = Vx div 2, and 8XYE leaves         *)
(* VF = Vx div 128 and Vx = (2 * Vx) mod 256; Vy is not read, and Vy (for  *)
(* y other than x and F) is unchanged.                                     *)
(***************************************************************************)
C18_ShiftStep ==
  /\ ExecStep /\ Primary(opcode) = 8 /\ FieldN(opcode) = 6
              /\ FieldX(opcode) # 15 =>
       /\ vx'[15] = vx[FieldX(opcode)] % 2
       /\ vx'[FieldX(opcode)] = vx[FieldX(opcode)] \div 2
       /\ FieldY(opcode) \notin {FieldX(opcode), 15} =>
            vx'[FieldY(opcode)] = vx[FieldY(opcode)]
  /\ ExecStep /\ Primary(opcode) = 8 /\ FieldN(opcode) = 14
              /\ FieldX(opcode) # 15 =>
       /\ vx'[15] = vx[FieldX(opcode)] \div 128
       /\ vx'[FieldX(opcode)] = (2 * vx[FieldX(opcode)]) % 256
       /\ FieldY(opcode) \notin {FieldX(opcode), 15} =>
            vx'[FieldY(opcode)] = vx[FieldY(opcode)]

C18_Shift == [][C18_ShiftStep]_vars

\* RomShift: 0x83 shifted right (bit 1 out), left (bit 0 out), left again
\* (bit 1 out), then V2 = 5 shifted right with V1 = 4 as y
C18_Witness ==
  /\ rom > 0
  /\ Roms[rom] = RomShift
  /\ executed = 33302
  /\ vx[1] = 4
  /\ vx[2] = 2
  /\ vx[15] = 1

(***************************************************************************)
(* C19.  BCD decomposition (FX33): for every value v of Vx and every index *)
(* register value I with I + 2 < 4096, afterwards ram[I], ram[I+1] and     *)
(* ram[I+2] are the hundreds, tens and ones digits of v, each in 0..9 with *)
(* 100 * ram[I] + 10 * ram[I+1] + ram[I+2] = v; no other memory byte, no   *)
(* register and not the index register changes.                            *)
(***************************************************************************)
C19_BcdStep ==
  ExecStep /\ StoresBcd(opcode) /\ i + 2 < 4096 =>
    /\ status' = "running"
    /\ \A k \in 0..2 : Rd(ram', i + k) \in 0..9
    /\ 100 * Rd(ram', i) + 10 * Rd(ram', i + 1) + Rd(ram', i + 2)
         = vx[FieldX(opcode)]
    /\ \A a \in (0..4095) \ (i..(i + 2)) : Rd(ram', a) = Rd(ram, a)
    /\ UNCHANGED << vx, i >>

C19_Bcd == [][C19_BcdStep]_vars

\* RomBcd has written 2, 5, 0 for V1 = 250 at 0x300, across the end of the
\* font table and into the last three bytes of memory
C19_Witness ==
  /\ rom > 0
  /\ Roms[rom] = RomBcd
  /\ executed = 61747
  /\ vx[1] = 250
  /\ i = 4093
  /\ << Rd(ram, 4093), Rd(ram, 4094), Rd(ram, 4095) >> = << 2, 5, 0 >>
  /\ << Rd(ram, 158), Rd(ram, 159), Rd(ram, 160) >> = << 2, 5, 0 >>
  /\ << Rd(ram, 768), Rd(ram, 769), Rd(ram, 770) >> = << 2, 5, 0 >>

(***************************************************************************)
(* C20.  Block transfer is an inclusive round trip: FX55 writes V0..Vx     *)
(* (x + 1 bytes) to ram[I..I+x] and changes no register, not the index     *)
(* register and no other memory byte; FX65 sets V0..Vx from ram[I..I+x]    *)
(* and leaves the registers above x, the index register and memory         *)
(* unchanged; FX55 immediately followed by FX65 with the same x and I      *)
(* leaves the whole register file as it was; with x = 0 exactly one byte   *)
(* is transferred.                                                         *)
(***************************************************************************)
LoadsRegisters(word) == Primary(word) = 15 /\ FieldNN(word) = 101

C20_BlockStep ==
  /\ ExecStep /\ StoresRegisters(opcode) /\ i + FieldX(opcode) < 4096 =>
       /\ status' = "running"
       /\ \A k \in 0..FieldX(opcode) : Rd(ram', i + k) = vx[k]
       /\ \A a \in (0..4095) \ (i..(i + FieldX(opcode))) :
            Rd(ram', a) = Rd(ram, a)
       /\ UNCHANGED << vx, i >>
  /\ ExecStep /\ LoadsRegisters(opcode) /\ i + FieldX(opcode) < 4096 =>
       /\ status' = "running"
       /\ \A k \in 0..FieldX(opcode) : vx'[k] = Rd(ram, i + k)
       /\ \A r \in (FieldX(opcode) + 1)..15 : vx'[r] = vx[r]
       /\ UNCHANGED << ram, i >>
  /\ ExecStep /\ LoadsRegisters(opcode) /\ StoresRegisters(executed)
              /\ FieldX(executed) = FieldX(opcode) => vx' = vx

C20_Block == [][C20_BlockStep]_vars

\* RomBlock: V0..V2 stored at 0x300 and loaded back, V0 and V1 loaded from
\* the font table, V0 alone stored at 0x050 and loaded back
C20_Witness ==
  /\ rom > 0
  /\ Roms[rom] = RomBlock
  /\ executed = 61541
  /\ i = 80
  /\ << vx[0], vx[1], vx[2], vx[3] >> = << 144, 144, 9, 0 >>
  /\ << Rd(ram, 768), Rd(ram, 769), Rd(ram, 770), Rd(ram, 771) >>
       = << 5, 7, 9, 0 >>
  /\ << Rd(ram, 80), Rd(ram, 81) >> = << 144, 144 >>

(***************************************************************************)
(* C21.  The key-wait scan covers key indices 1 through 15 only and takes  *)
(* the first pressed one: with several keys pressed FX0A stores the lowest *)
(* pressed index among 1..15 in Vx; key 0 is never stored by FX0A, and     *)
(* with key 0 as the only pressed key the instruction keeps retrying (pc   *)
(* stays on the instruction) exactly as if no key were pressed.            *)
(***************************************************************************)
Scanned == Pressed \ {0}

C21_KeyScanStep ==
  /\ ExecStep /\ KeyWait(opcode) /\ Scanned # {} =>
       /\ status' = "running"
       /\ vx'[FieldX(opcode)] \in Scanned
       /\ \A k \in Scanned : vx'[FieldX(opcode)] <= k
       /\ \A r \in 0..15 : r # FieldX(opcode) => vx'[r] = vx[r]
       /\ pc' = at + 2
  /\ ExecStep /\ KeyWait(opcode) /\ Scanned = {} =>
       /\ status' = "running"
       /\ pc' = at
       /\ UNCHANGED << vx, i, ram, stack, sp, display, draw_flag,
                       delay_timer, sound_timer >>

C21_KeyScan == [][C21_KeyScanStep]_vars

\* RomKey resumed with keys 1 and 5 down and stored the lower one
C21_Witness ==
  /\ rom > 0
  /\ Roms[rom] = RomKey
  /\ executed = 62218
  /\ Pressed = {1, 5}
  /\ vx[3] = 1
  /\ pc = 514

\* RomKey retried with key 0 as the only key down
C21_WitnessRetry ==
  /\ rom > 0
  /\ Roms[rom] = RomKey
  /\ executed = 62218
  /\ Pressed = {0}
  /\ vx[3] = 0
  /\ pc = 512
  /\ steps > 1

(***************************************************************************)
(* C22.  The frame protocol of the driver loop, on the runs of SpecRun.    *)
(***************************************************************************)
\* the step hands a buffer to the renderer
ShowStep == frame'.shows = frame.shows + 1

\* the step is a call of tick_timers by the frame driver
FrameTickStep == frame'.ticked = frame.ticked + 1

\* the step starts an iteration
StartStep == frame.stage = "keys" /\ frame'.stage = "cycles"

\* the step ends an iteration
EndStep == frame'.count = frame.count + 1

\* Within an iteration the cycles come before the tick and the tick before
\* the presentation: a cycle step finds fewer than 10 cycles run, no tick
\* and no presentation; the tick finds 10 cycles run and no earlier tick or
\* presentation, in Chip8::run and in Chip8Wasm::tick alike; a presentation
\* finds 10 cycles and one tick, the flag set, hands over the display as
\* the 10 cycles left it and clears the flag; the iteration ends with 10
\* cycles and 1 tick and, in Chip8::run, with the flag clear and with one
\* presentation if a 00E0 or DXYN was executed in it and none otherwise.
\* In Chip8::run an iteration starts by polling the keys, with the flag
\* clear.
C22_FrameStep ==
  /\ FetchStep \/ ExecStep =>
       /\ frame.cycle < CYCLES_PER_FRAME
       /\ frame.ticked = 0
       /\ frame.shows = 0
  /\ FrameTickStep =>
       /\ frame.cycle = CYCLES_PER_FRAME
       /\ frame.ticked = 0
       /\ frame.shows = 0
       /\ delay_timer' = Decremented(delay_timer)
       /\ sound_timer' = Decremented(sound_timer)
  /\ ShowStep =>
       /\ frame.host = "native"
       /\ frame.cycle = CYCLES_PER_FRAME
       /\ frame.ticked = 1
       /\ frame.shows = 0
       /\ draw_flag
       /\ ~draw_flag'
       /\ display' = display
       /\ screen' = Buffer(display)
  /\ screen' # screen => ShowStep
  /\ EndStep =>
       /\ frame.cycle = CYCLES_PER_FRAME
       /\ frame'.ticked = 1
       /\ frame.host = "native" =>
            /\ ~draw_flag'
            /\ frame'.shows = IF frame.drew THEN 1 ELSE 0
  /\ StartStep /\ frame.host = "native" =>
       /\ ~draw_flag
       /\ ~draw_flag'
       /\ \E down \in SUBSET HostKeys :
            keypad' = [k \in 0..(NUM_KEYS - 1) |-> KeyBinding[k] \in down]
  /\ keypad' # keypad /\ frame.host = "native" => StartStep

\* C22: every iteration of the frame loop polls the keys, then runs exactly
\* 10 cycles, then ticks the timers exactly once (Chip8Wasm::tick too), and
\* only then presents the display, if and only if the dirty flag is set,
\* and clears the flag; the flag is clear when the cycles of an iteration
\* start, and a frame in which a 00E0 or DXYN was executed is presented
\* exactly once, with the display as all 10 cycles left it.
C22_Frame == [][C22_FrameStep]_vars

\* Chip8::run has ended a second iteration that executed a draw and has
\* presented it once, after a first one that did too (the IBM image draws
\* in its cycles 5, 8 and 11).
C22_Witness ==
  /\ status = "running"
  /\ frame.host = "native"
  /\ frame.stage = "keys"
  /\ frame.count = 2
  /\ Roms[rom] = RomIbm
  /\ frame.drew
  /\ frame.shows = 1
  /\ frame.cycle = CYCLES_PER_FRAME
  /\ frame.ticked = 1
  /\ screen = Buffer(display)
  /\ screen # << >>
  /\ ~draw_flag

\* Chip8::run has ended an iteration that executed no 00E0 or DXYN and has
\* presented nothing in it.
C22_WitnessIdle ==
  /\ status = "running"
  /\ frame.host = "native"
  /\ frame.stage = "keys"
  /\ frame.count = 3
  /\ Roms[rom] = RomIbm
  /\ ~frame.drew
  /\ frame.shows = 0
  /\ screen = Buffer(display)

\* Chip8Wasm::tick has returned twice: 10 cycles and one tick each time.
C22_WitnessWasm ==
  /\ status = "running"
  /\ frame.host = "wasm"
  /\ frame.stage = "keys"
  /\ frame.count = 2
  /\ frame.cycle = CYCLES_PER_FRAME
  /\ frame.ticked = 1
  /\ steps = 2 * CYCLES_PER_FRAME

(***************************************************************************)
(* C23.  Failing instructions.                                             *)
(***************************************************************************)
\* the step ends in a panic
PanicStep == status = "running" /\ status' = "panicked"

\* C23: a cycle step that halts on an out-of-range condition has modified
\* no memory byte, register, display cell, stack entry or stack pointer.
C23_Atomic ==
  [][PanicStep => UNCHANGED << ram, vx, i, display, stack, sp >>]_vars

\* FX33 with I = 0xFFE has panicked on its third store, after the first two.
C23_Partial ==
  /\ status = "panicked"
  /\ opcode = 61747
  /\ Roms[rom] = RomBcdEnd
  /\ i = RAM_SIZE - 2
  /\ vx[1] = 255
  /\ Rd(ram, RAM_SIZE - 2) = 2
  /\ Rd(ram, RAM_SIZE - 1) = 5

(***************************************************************************)
(* C24.  The conditional skips.                                            *)
(***************************************************************************)
\* the word is one of 3XNN, 4XNN, 5XY0, 9XY0
IsSkip(word) ==
  \/ Primary(word) \in {3, 4}
  \/ Primary(word) \in {5, 9} /\ FieldN(word) = 0

\* the condition the word tests, on the registers of the state
SkipCondition(word) ==
  LET x == FieldX(word)
      y == FieldY(word)
      nn == FieldNN(word)
  IN IF Primary(word) = 3 THEN vx[x] = nn
     ELSE IF Primary(word) = 4 THEN vx[x] # nn
     ELSE IF Primary(word) = 5 THEN vx[x] = vx[y]
     ELSE vx[x] # vx[y]

C24_SkipStep ==
  ExecStep /\ IsSkip(opcode) =>
    /\ status' = "running"
    /\ pc' = IF SkipCondition(opcode) THEN at + 4 ELSE at + 2
    /\ Primary(opcode) = 5 /\ FieldX(opcode) = FieldY(opcode) => pc' = at + 4
    /\ UNCHANGED << ram, i, vx, display, draw_flag, stack, sp, keypad,
                    delay_timer, sound_timer >>

\* C24: a cycle step at address a that executes 3XNN, 4XNN, 5XY0 or 9XY0
\* leaves pc = a + 4 if its condition holds (Vx = NN, Vx # NN, Vx = Vy,
\* Vx # Vy) and pc = a + 2 otherwise, and changes nothing else; so on the
\* same operands exactly one of 3XNN / 4XNN and one of 5XY0 / 9XY0 skips,
\* and 5XY0 with x = y always skips.
C24_Skip == [][C24_SkipStep]_vars

\* RomSkip has run through all its skips: the last, SE V3, V3 at 0x21E,
\* skipped to 0x222, and none of the skipped LD VF, 1 was executed.
C24_Witness ==
  /\ status = "running"
  /\ executed = 21296
  /\ Roms[rom] = RomSkip
  /\ at = 542
  /\ pc = 546
  /\ vx[15] = 0

\* SNE V1, 5 at 0x20A, reached by the skip of SE V1, 5, did not skip.
C24_WitnessNoSkip ==
  /\ status = "running"
  /\ executed = 16645
  /\ Roms[rom] = RomSkip
  /\ at = 522
  /\ pc = 524

=============================================================================
